---- MODULE Spec2Model ----
(***************************************************************************)
(* Red-black tree of gostl (RbTree, Node, RbTreeIterator) as a state       *)
(* machine over a heap of nodes.  Pointers are node ids, nil is NIL.       *)
(***************************************************************************)
EXTENDS Integers, Sequences, FiniteSets, Bags, TLC

\* ---- bounds ------------------------------------------------------------
MaxNodes == 6          \* most nodes alive at once
MaxKey == 3            \* keys are 1..MaxKey
MaxVal == 2            \* values are 1..MaxVal
MaxKVNodes == 3        \* most nodes alive at once where values vary
MaxKVKey == 2          \* keys are 1..MaxKVKey where values vary or a cursor moves
MaxQNodes == 5         \* most nodes alive at once where bounds are queried
MaxIterNodes == 4      \* most nodes referenced at once where a cursor moves
MaxRTKeys == 5         \* most distinct keys of a round trip
MaxCurNodes == 3       \* most nodes referenced at once where a cursor outlives its node
MaxIdle == 2           \* calls counted on a cursor that is invalid
MaxTravNodes == 3      \* most nodes alive at once where the tree is traversed
MaxShapeNodes == 4     \* most nodes of a tree of any shape and coloring
MaxThreads == 2        \* goroutines that call one adapter
MaxLen == 2            \* most elements in an adapter's container
MaxSeq == 6            \* most Insert calls where each value is the number of its call
MaxSeqNodes == 4       \* most nodes alive at once there
MaxHeap == 8           \* node addresses; most nodes where the fixup loops run round by round
MaxFixKey == 2         \* keys there are 1..MaxFixKey

NIL == 0
Nodes == 1..MaxHeap
Ptr == Nodes \cup {NIL}
Keys == 1..MaxKey
Vals == 1..MaxVal
QueryKeys == 0..(MaxKey + 1)
KVKeys == 1..MaxKVKey
FindKeys == 1..(MaxKVKey + 1)
ZeroValue == 0
DefaultVal == 1

RED == FALSE
BLACK == TRUE

VARIABLES root, size, parent, left, right, color, key, value, iter, net, entries, last, walk, trip,
          cur, trav, ad, seq, fix

treeVars == <<root, size, parent, left, right, color, key, value>>
vars == <<root, size, parent, left, right, color, key, value, iter, net, entries, last, walk, trip,
          cur, trav, ad, seq, fix>>

\* what a scenario other than the one in progress keeps track of
offTrip == <<cur, trav, ad, seq, fix>>
offCur == <<trip, trav, ad, seq, fix>>
offTrav == <<trip, cur, ad, seq, fix>>
offSeq == <<trip, cur, trav, ad, fix>>
offFix == <<walk, trip, cur, trav, ad, seq>>
off == <<trip, cur, trav, ad, seq, fix>>

\* the tree and its nodes as one value; rot counts the rotations of the
\* operation in progress
T == [root |-> root, size |-> size, parent |-> parent, left |-> left,
      right |-> right, color |-> color, key |-> key, value |-> value,
      rot |-> 0]

\* comparator: the total order on integers
keyCmp(a, b) == IF a < b THEN -1 ELSE IF a > b THEN 1 ELSE 0

getColor(t, n) == IF n = NIL THEN BLACK ELSE t.color[n]

RECURSIVE minimum(_, _)
minimum(t, n) == IF t.left[n] # NIL THEN minimum(t, t.left[n]) ELSE n

RECURSIVE maximum(_, _)
maximum(t, n) == IF t.right[n] # NIL THEN maximum(t, t.right[n]) ELSE n

RECURSIVE succUp(_, _, _)
succUp(t, x, y) ==
    IF y # NIL /\ x = t.right[y] THEN succUp(t, y, t.parent[y]) ELSE y

successor(t, x) ==
    IF t.right[x] # NIL THEN minimum(t, t.right[x])
    ELSE succUp(t, x, t.parent[x])

RECURSIVE presuccUp(_, _)
presuccUp(t, x) ==
    IF t.parent[x] # NIL /\ t.left[t.parent[x]] = x
    THEN presuccUp(t, t.parent[x])
    ELSE t.parent[x]

\* presuccessor without the climb over left-child links
presuccessor_noClimb(t, x) ==
    IF t.left[x] # NIL THEN maximum(t, t.left[x]) ELSE t.parent[x]

presuccessor(t, x) ==
    IF t.left[x] # NIL THEN maximum(t, t.left[x])
    ELSE IF t.parent[x] # NIL
         THEN IF t.right[t.parent[x]] = x THEN t.parent[x]
              ELSE presuccUp(t, x)
         ELSE NIL

First(t) == IF t.root = NIL THEN NIL ELSE minimum(t, t.root)
Last(t) == IF t.root = NIL THEN NIL ELSE maximum(t, t.root)
Empty(t) == t.size = 0
Size(t) == t.size

\* ---- rotations ---------------------------------------------------------
\* leftRotate that makes the promoted node the root wherever x was
leftRotate_rootAlways(t, x) ==
    LET y == t.right[x]
        yl == t.left[y]
        xp == t.parent[x]
        r1 == [t.right EXCEPT ![x] = yl]
        p1 == IF yl # NIL THEN [t.parent EXCEPT ![yl] = x] ELSE t.parent
        p2 == [p1 EXCEPT ![y] = xp]
        l1 == IF xp # NIL /\ x = t.left[xp]
              THEN [t.left EXCEPT ![xp] = y] ELSE t.left
        r2 == IF xp # NIL /\ x # t.left[xp]
              THEN [r1 EXCEPT ![xp] = y] ELSE r1
    IN [t EXCEPT !.root = y,
                 !.rot = t.rot + 1,
                 !.left = [l1 EXCEPT ![y] = x],
                 !.right = r2,
                 !.parent = [p2 EXCEPT ![x] = y]]

leftRotate(t, x) ==
    LET y == t.right[x]
        yl == t.left[y]
        xp == t.parent[x]
        r1 == [t.right EXCEPT ![x] = yl]
        p1 == IF yl # NIL THEN [t.parent EXCEPT ![yl] = x] ELSE t.parent
        p2 == [p1 EXCEPT ![y] = xp]
        rt == IF xp = NIL THEN y ELSE t.root
        l1 == IF xp # NIL /\ x = t.left[xp]
              THEN [t.left EXCEPT ![xp] = y] ELSE t.left
        r2 == IF xp # NIL /\ x # t.left[xp]
              THEN [r1 EXCEPT ![xp] = y] ELSE r1
    IN [t EXCEPT !.root = rt,
                 !.rot = t.rot + 1,
                 !.left = [l1 EXCEPT ![y] = x],
                 !.right = r2,
                 !.parent = [p2 EXCEPT ![x] = y]]

rightRotate(t, x) ==
    LET y == t.left[x]
        yr == t.right[y]
        xp == t.parent[x]
        l1 == [t.left EXCEPT ![x] = yr]
        p1 == IF yr # NIL THEN [t.parent EXCEPT ![yr] = x] ELSE t.parent
        p2 == [p1 EXCEPT ![y] = xp]
        rt == IF xp = NIL THEN y ELSE t.root
        r1 == IF xp # NIL /\ x = t.right[xp]
              THEN [t.right EXCEPT ![xp] = y] ELSE t.right
        l2 == IF xp # NIL /\ x # t.right[xp]
              THEN [l1 EXCEPT ![xp] = y] ELSE l1
    IN [t EXCEPT !.root = rt,
                 !.rot = t.rot + 1,
                 !.right = [r1 EXCEPT ![y] = x],
                 !.left = l2,
                 !.parent = [p2 EXCEPT ![x] = y]]

setColor(t, n, c) == [t EXCEPT !.color[n] = c]

\* ---- Insert ------------------------------------------------------------
\* z.parent.color = BLACK; z.parent.parent.color = RED
recolorUp(t, z) ==
    setColor(setColor(t, t.parent[z], BLACK), t.parent[t.parent[z]], RED)

\* uncle RED: parent and uncle BLACK, grandparent RED
recolorUncle(t, z, y) == setColor(recolorUp(t, z), y, BLACK)

\* the outer shape under a left parent: recolor, rotate the grandparent right
outerLeft(t, z) == rightRotate(recolorUp(t, z), t.parent[t.parent[z]])

\* the outer shape under a right parent: recolor, rotate the grandparent left
outerRight(t, z) == leftRotate(recolorUp(t, z), t.parent[t.parent[z]])

\* for z.parent != nil && !z.parent.color
insertLoopGuard(t, z) == t.parent[z] # NIL /\ t.color[t.parent[z]] = RED

\* what one round of the insert fixup hands to the next: the tree, the new z
\* and whether the round went through the rotation case
afterRound(t, z, rotated) == [t |-> t, z |-> z, rotated |-> rotated]

\* the parent p of z is the left child of g, y is the uncle
insertRoundLeft(t, z, p, g, y) ==
    IF y # NIL /\ t.color[y] = RED
    THEN afterRound(recolorUncle(t, z, y), g, FALSE)
    ELSE IF z = t.right[p]
         THEN afterRound(outerLeft(leftRotate(t, p), p), p, TRUE)
         ELSE afterRound(outerLeft(t, z), z, TRUE)

\* the parent p of z is the right child of g: the mirror image
insertRoundRight(t, z, p, g, y) ==
    IF y # NIL /\ t.color[y] = RED
    THEN afterRound(recolorUncle(t, z, y), g, FALSE)
    ELSE IF z = t.left[p]
         THEN afterRound(outerRight(rightRotate(t, p), p), p, TRUE)
         ELSE afterRound(outerRight(t, z), z, TRUE)

\* the body of the loop of rbInsertFixup, under the parent p and grandparent g
insertRound(t, z, p, g) ==
    IF p = t.left[g] THEN insertRoundLeft(t, z, p, g, t.right[g])
                     ELSE insertRoundRight(t, z, p, g, t.left[g])

insertFixupEnd(t) == setColor(t, t.root, BLACK)

RECURSIVE rbInsertFixup(_, _)

insertLoop(r) == rbInsertFixup(r.t, r.z)

rbInsertFixup(t, z) ==
    IF insertLoopGuard(t, z)
    THEN insertLoop(insertRound(t, z, t.parent[z], t.parent[t.parent[z]]))
    ELSE insertFixupEnd(t)

\* the descent of Insert: the node under which the new key is linked
RECURSIVE insertDescend(_, _, _, _)
insertDescend(t, x, y, k) ==
    IF x # NIL
    THEN IF keyCmp(k, t.key[x]) < 0
         THEN insertDescend(t, t.left[x], x, k)
         ELSE insertDescend(t, t.right[x], x, k)
    ELSE y

\* linkChild with the comparison turned around
linkChild_flip(t, y, z) ==
    IF keyCmp(t.key[z], t.key[y]) > 0
    THEN [t EXCEPT !.left[y] = z]
    ELSE [t EXCEPT !.right[y] = z]

\* linkChild that puts an equal key to the left
linkChild_tieLeft(t, y, z) ==
    IF keyCmp(t.key[z], t.key[y]) <= 0
    THEN [t EXCEPT !.left[y] = z]
    ELSE [t EXCEPT !.right[y] = z]

\* the new node z becomes the left or the right child of y
linkChild(t, y, z) ==
    IF keyCmp(t.key[z], t.key[y]) < 0
    THEN [t EXCEPT !.left[y] = z]
    ELSE [t EXCEPT !.right[y] = z]

\* newNode without t.size++
newNode_noCount(t, z, y, k, v) ==
    [t EXCEPT !.parent[z] = y, !.left[z] = NIL, !.right[z] = NIL,
              !.color[z] = RED, !.key[z] = k, !.value[z] = v]

\* z := &Node{parent: y, color: RED, key: k, value: v}; t.size++
newNode(t, z, y, k, v) ==
    [t EXCEPT !.parent[z] = y, !.left[z] = NIL, !.right[z] = NIL,
              !.color[z] = RED, !.key[z] = k, !.value[z] = v,
              !.size = t.size + 1]

insertUnder(t, z, y) ==
    IF y = NIL
    THEN [t EXCEPT !.color[z] = BLACK, !.root = z]
    ELSE rbInsertFixup(linkChild(t, y, z), z)

insertAt(t, z, y, k, v) == insertUnder(newNode(t, z, y, k, v), z, y)

insertOp(t, z, k, v) == insertAt(t, z, insertDescend(t, t.root, NIL, k), k, v)

\* ---- Delete ------------------------------------------------------------
setColorIf(t, n, c) == IF n # NIL THEN setColor(t, n, c) ELSE t

\* what a fixup step hands back: the tree, the new x and the case the step
\* ended in
atRoot(t) == [t |-> t, x |-> t.root, case |-> 4]

\* x is a left child.  Sibling RED: recolor, rotate the parent left
fixupLeftCase1(t, par) ==
    IF t.color[t.right[par]] = RED
    THEN leftRotate(setColor(setColor(t, t.right[par], BLACK), par, RED), par)
    ELSE t

\* sibling's far child BLACK: recolor, rotate the sibling right
fixupLeftCase3(t, par, w) ==
    IF getColor(t, t.right[w]) = BLACK
    THEN rightRotate(setColor(setColorIf(t, t.left[w], BLACK), w, RED), w)
    ELSE t

\* fixupLeftCase4 with x = parent in the place of x = t.root
fixupLeftCase4_keepX(t, par, w) ==
    [t |-> leftRotate(
        setColorIf(setColor(setColor(t, w, t.color[par]), par, BLACK),
                   t.right[w], BLACK), par),
     x |-> par, case |-> 4]

\* sibling takes the parent's color, parent and far child BLACK, rotate left
fixupLeftCase4(t, par, w) ==
    atRoot(leftRotate(
        setColorIf(setColor(setColor(t, w, t.color[par]), par, BLACK),
                   t.right[w], BLACK), par))

\* fixupLeftCase2 without w.color = RED
fixupLeftCase2_norecolor(t, par, w) ==
    IF getColor(t, t.left[w]) = BLACK /\ getColor(t, t.right[w]) = BLACK
    THEN [t |-> t, x |-> par, case |-> 2]
    ELSE fixupLeftCase4(fixupLeftCase3(t, par, w), par,
                        fixupLeftCase3(t, par, w).right[par])

\* both children of the sibling BLACK: sibling RED, the deficiency moves up
fixupLeftCase2(t, par, w) ==
    IF getColor(t, t.left[w]) = BLACK /\ getColor(t, t.right[w]) = BLACK
    THEN [t |-> setColor(t, w, RED), x |-> par, case |-> 2]
    ELSE fixupLeftCase4(fixupLeftCase3(t, par, w), par,
                        fixupLeftCase3(t, par, w).right[par])

fixupLeftFrom(t, par) == fixupLeftCase2(t, par, t.right[par])

rbFixupLeft(t, x, par) == fixupLeftFrom(fixupLeftCase1(t, par), par)

\* x is a right child: the mirror image
fixupRightCase1(t, par) ==
    IF t.color[t.left[par]] = RED
    THEN rightRotate(setColor(setColor(t, t.left[par], BLACK), par, RED), par)
    ELSE t

fixupRightCase3(t, par, w) ==
    IF getColor(t, t.left[w]) = BLACK
    THEN leftRotate(setColor(setColorIf(t, t.right[w], BLACK), w, RED), w)
    ELSE t

fixupRightCase4(t, par, w) ==
    atRoot(rightRotate(
        setColorIf(setColor(setColor(t, w, t.color[par]), par, BLACK),
                   t.left[w], BLACK), par))

fixupRightCase2(t, par, w) ==
    IF getColor(t, t.left[w]) = BLACK /\ getColor(t, t.right[w]) = BLACK
    THEN [t |-> setColor(t, w, RED), x |-> par, case |-> 2]
    ELSE fixupRightCase4(fixupRightCase3(t, par, w), par,
                         fixupRightCase3(t, par, w).left[par])

fixupRightFrom(t, par) == fixupRightCase2(t, par, t.left[par])

rbFixupRight(t, x, par) == fixupRightFrom(fixupRightCase1(t, par), par)

RECURSIVE rbDeleteFixup(_, _, _)

\* the next round of the loop, from what the fixup step handed back
fixupLoop(r, par) == rbDeleteFixup(r.t, r.x, par)

\* the body of the loop of rbDeleteFixup, after parent is set
deleteRound(t, x, par) ==
    IF x = t.left[par] THEN rbFixupLeft(t, x, par) ELSE rbFixupRight(t, x, par)

fixupStep(t, x, par) == fixupLoop(deleteRound(t, x, par), par)

\* for x != t.root && getColor(x)
deleteLoopGuard(t, x) == x # t.root /\ getColor(t, x) = BLACK

deleteFixupEnd(t, x) == setColorIf(t, x, BLACK)

\* if x != nil { parent = x.parent }
parentOf(t, x, par) == IF x # NIL THEN t.parent[x] ELSE par

rbDeleteFixup(t, x, par) ==
    IF deleteLoopGuard(t, x) THEN fixupStep(t, x, parentOf(t, x, par))
                             ELSE deleteFixupEnd(t, x)

\* removed with the predecessor in the place of the successor
removed_pred(t, z) ==
    IF t.left[z] # NIL /\ t.right[z] # NIL THEN presuccessor(t, z) ELSE z

\* the node Delete unlinks: z itself, or its successor when z has two children
removed(t, z) ==
    IF t.left[z] # NIL /\ t.right[z] # NIL THEN successor(t, z) ELSE z

\* splice without x.parent = xparent
splice_noParent(t, y, x) ==
    IF t.parent[y] = NIL THEN [t EXCEPT !.root = x]
    ELSE IF y = t.left[t.parent[y]]
         THEN [t EXCEPT !.left[t.parent[y]] = x]
         ELSE [t EXCEPT !.right[t.parent[y]] = x]

\* y's only child x takes y's place under y's parent
splice(t, y, x) ==
    LET xparent == t.parent[y]
        t1 == IF x # NIL THEN [t EXCEPT !.parent[x] = xparent] ELSE t
    IN IF t1.parent[y] = NIL THEN [t1 EXCEPT !.root = x]
       ELSE IF y = t1.left[t1.parent[y]]
            THEN [t1 EXCEPT !.left[t1.parent[y]] = x]
            ELSE [t1 EXCEPT !.right[t1.parent[y]] = x]

\* copyEntry without z.value = y.value
copyEntry_keyOnly(t, z, y) ==
    IF y # z THEN [t EXCEPT !.key[z] = t.key[y]] ELSE t

copyEntry(t, z, y) ==
    IF y # z
    THEN [t EXCEPT !.key[z] = t.key[y], !.value[z] = t.value[y]]
    ELSE t

\* Delete without t.size--
decSize_none(t) == t

decSize(t) == [t EXCEPT !.size = t.size - 1]

fixupIfBlack(t, y, x, xparent) ==
    IF t.color[y] = BLACK THEN rbDeleteFixup(t, x, xparent) ELSE t

\* Delete of z, where y is the node that is unlinked and x its only child
deleteVia(t, z, y, x) ==
    decSize(fixupIfBlack(copyEntry(splice(t, y, x), z, y), y, x, t.parent[y]))

onlyChild(t, y) == IF t.left[y] # NIL THEN t.left[y] ELSE t.right[y]

deleteNode(t, z, y) == deleteVia(t, z, y, onlyChild(t, y))

\* Delete with t.size-- ahead of the nil check
deleteOp_early(t, node) ==
    IF node = NIL THEN decSize(t) ELSE deleteNode(t, node, removed(t, node))

deleteOp(t, node) ==
    IF node = NIL THEN t ELSE deleteNode(t, node, removed(t, node))

Clear(t) == [t EXCEPT !.root = NIL, !.size = 0]

\* ---- search ------------------------------------------------------------
RECURSIVE findLowerBoundNode(_, _, _)
findLowerBoundNode(t, x, k) ==
    IF x = NIL THEN NIL
    ELSE IF keyCmp(k, t.key[x]) <= 0
         THEN LET ret == findLowerBoundNode(t, t.left[x], k)
              IN IF ret = NIL THEN x
                 ELSE IF keyCmp(t.key[ret], t.key[x]) <= 0 THEN ret ELSE x
         ELSE findLowerBoundNode(t, t.right[x], k)

RECURSIVE findUpperBoundNode(_, _, _)
findUpperBoundNode(t, x, k) ==
    IF x = NIL THEN NIL
    ELSE IF keyCmp(k, t.key[x]) >= 0
         THEN findUpperBoundNode(t, t.right[x], k)
         ELSE LET ret == findUpperBoundNode(t, t.left[x], k)
              IN IF ret = NIL THEN x
                 ELSE IF keyCmp(t.key[ret], t.key[x]) <= 0 THEN ret ELSE x

\* FindLowerBoundNode calling the upper-bound descent
FindLowerBoundNode_upper(t, k) == findUpperBoundNode(t, t.root, k)

FindLowerBoundNode(t, k) == findLowerBoundNode(t, t.root, k)

\* FindUpperBoundNode calling the lower-bound descent
FindUpperBoundNode_lower(t, k) == findLowerBoundNode(t, t.root, k)

FindUpperBoundNode(t, k) == findUpperBoundNode(t, t.root, k)

\* findNode: some node with an equal key, not necessarily the first
RECURSIVE findNode(_, _, _)
findNode(t, x, k) ==
    IF x = NIL THEN NIL
    ELSE IF keyCmp(k, t.key[x]) < 0 THEN findNode(t, t.left[x], k)
    ELSE IF keyCmp(k, t.key[x]) = 0 THEN x
    ELSE findNode(t, t.right[x], k)

\* findFirstNode through findNode: any node with an equal key
findFirstNode_any(t, k) == findNode(t, t.root, k)

findFirstNode(t, k) ==
    LET node == FindLowerBoundNode(t, k)
    IN IF node = NIL THEN NIL
       ELSE IF keyCmp(t.key[node], k) = 0 THEN node ELSE NIL

FindNode(t, k) == findFirstNode(t, k)

Find(t, k) ==
    LET n == findFirstNode(t, k)
    IN IF n # NIL THEN [val |-> t.value[n], err |-> "nil"]
       ELSE [val |-> ZeroValue, err |-> "ErrorNotFound"]

\* ---- Traversal ---------------------------------------------------------
\* The visitor is a caller's function: what it answers to its i-th call is
\* answers[i].  calls are the nodes it has been called on so far.
RECURSIVE traversalFrom(_, _, _, _)
traversalFrom(t, node, answers, calls) ==
    IF node = NIL THEN calls
    ELSE IF ~answers[Len(calls) + 1] THEN Append(calls, node)
    ELSE traversalFrom(t, successor(t, node), answers, Append(calls, node))

\* Traversal that starts at the root
Traversal_fromRoot(t, answers) == traversalFrom(t, t.root, answers, <<>>)

Traversal(t, answers) == traversalFrom(t, First(t), answers, <<>>)

\* ---- invariant checker -------------------------------------------------
\* testNode that asks for both children of a RED node to be RED
testNode_both(t, n, blackCount) ==
    IF t.color[n] = RED
    THEN IF getColor(t, t.left[n]) = RED /\ getColor(t, t.right[n]) = RED
         THEN <<0, 4, FALSE>>
         ELSE <<blackCount, 0, TRUE>>
    ELSE <<blackCount + 1, 0, TRUE>>

\* property 4 at n and the black count of n, from that of its subtrees
testNode(t, n, blackCount) ==
    IF t.color[n] = RED
    THEN IF getColor(t, t.left[n]) = RED \/ getColor(t, t.right[n]) = RED
         THEN <<0, 4, FALSE>>
         ELSE <<blackCount, 0, TRUE>>
    ELSE <<blackCount + 1, 0, TRUE>>

RECURSIVE test(_, _)
test(t, n) ==
    IF n = NIL THEN <<1, 0, TRUE>>
    ELSE IF n = t.root /\ t.color[n] = RED THEN <<1, 2, FALSE>>
    ELSE LET l == test(t, t.left[n])
         IN IF ~l[3] THEN l
            ELSE LET r == test(t, t.right[n])
                 IN IF ~r[3] THEN r
                    ELSE IF r[1] # l[1] THEN <<l[1], 5, FALSE>>
                    ELSE testNode(t, n, l[1])

IsRbTree(t) ==
    LET r == test(t, t.root)
    IN IF ~r[3] THEN [ok |-> FALSE, property |-> r[2]]
       ELSE [ok |-> TRUE, property |-> 0]

\* ---- iterator ----------------------------------------------------------
\* IsValid() that never reports the end
IsValid_always(it) == TRUE

IsValid(it) == it # NIL
\* Next() that starts over at the first node once the cursor is invalid
IterNextOp_wrap(t, it) == IF IsValid(it) THEN successor(t, it) ELSE First(t)

IterNextOp(t, it) == IF IsValid(it) THEN successor(t, it) ELSE it
IterPrevOp(t, it) == IF IsValid(it) THEN presuccessor(t, it) ELSE it

\* ---- memory ------------------------------------------------------------
\* in-order sequence of the nodes under n (left subtree, n, right subtree)
RECURSIVE InOrderFrom(_, _, _)
InOrderFrom(t, n, d) ==
    IF n = NIL \/ d = 0 THEN <<>>
    ELSE InOrderFrom(t, t.left[n], d - 1) \o <<n>> \o InOrderFrom(t, t.right[n], d - 1)

InOrder(t) == InOrderFrom(t, t.root, MaxHeap)

Range(s) == {s[i] : i \in DOMAIN s}

\* the nodes of the tree: those reachable from the root through child links
Live(t) == Range(InOrder(t))

\* nodes still referenced: from the root or from the cursor, through any link
RECURSIVE Closure(_, _, _)
Closure(t, S, d) ==
    LET L == {t.parent[n] : n \in S} \cup {t.left[n] : n \in S}
               \cup {t.right[n] : n \in S}
        N == S \cup (L \ {NIL})
    IN IF N = S \/ d = 0 THEN S ELSE Closure(t, N, d - 1)

Held(t, it) == Closure(t, {t.root, it} \ {NIL}, MaxHeap)

RECURSIVE SortedSeq(_)
SortedSeq(S) ==
    IF S = {} THEN <<>>
    ELSE LET m == CHOOSE x \in S : \A o \in S : x <= o
         IN <<m>> \o SortedSeq(S \ {m})

\* A pointer is only ever compared for equality, so a state is the same
\* program state under any renaming of node addresses.  Addresses are kept
\* in a normal form: the nodes of the tree are numbered in in-order, the
\* other referenced nodes follow, and unreferenced nodes are free memory
\* (a later &Node{...} starts from the zero struct).
RECURSIVE AddrOf(_, _, _)
AddrOf(order, i, acc) ==
    IF i > Len(order) THEN acc
    ELSE AddrOf(order, i + 1, [acc EXCEPT ![order[i]] = i])

Renumber(t, it, order, a) ==
    [root |-> a[t.root],
     size |-> t.size,
     parent |-> [m \in Nodes |-> IF m <= Len(order) THEN a[t.parent[order[m]]] ELSE NIL],
     left |-> [m \in Nodes |-> IF m <= Len(order) THEN a[t.left[order[m]]] ELSE NIL],
     right |-> [m \in Nodes |-> IF m <= Len(order) THEN a[t.right[order[m]]] ELSE NIL],
     color |-> [m \in Nodes |-> IF m <= Len(order) THEN t.color[order[m]] ELSE RED],
     key |-> [m \in Nodes |-> IF m <= Len(order) THEN t.key[order[m]] ELSE 0],
     value |-> [m \in Nodes |-> IF m <= Len(order) THEN t.value[order[m]] ELSE 0],
     iter |-> a[it],
     rot |-> t.rot]

RenumberBy(t, it, order) ==
    Renumber(t, it, order, AddrOf(order, 1, [n \in Ptr |-> NIL]))

Normalize(t, it) ==
    RenumberBy(t, it, InOrder(t) \o SortedSeq(Held(t, it) \ Live(t)))

\* at most MaxNodes nodes are referenced at once: the addresses past
\* MaxNodes are used only where the fixup loops run round by round
Free == (1..MaxNodes) \ Held(T, iter)
\* the address a new node gets: any free one, here the lowest
NewNode == CHOOSE z \in Free : \A o \in Free : z <= o

\* ---- state machine -----------------------------------------------------
\* what the last call was and what it returned
Ret(op, rot, k, node, val, err) ==
    [op |-> op, rot |-> rot, key |-> k, node |-> node, val |-> val, err |-> err]

NoWalk == [on |-> FALSE, fwd |-> 0, back |-> 0]
NoTrip == [phase |-> "idle", keys |-> {}, n |-> 0]
NoCur == [idle |-> 0, cut |-> FALSE]
NoTrav == [answers |-> <<>>, nodes |-> <<>>]

\* a call of Insert or Delete that is inside its fixup loop: the tree as the
\* call has left it so far (t), the loop's node (z of the insert fixup, x of
\* the delete fixup) and parent, the rounds of the loop that have run, how
\* the last round ended ("recolor" or "rotate" for the insert fixup, "case2"
\* or "case4" for the delete fixup) and how deep the node was when the loop
\* was entered
NoFix == [pc |-> "idle", t |-> NIL, node |-> NIL, par |-> NIL, rounds |-> 0,
          ended |-> "none", depth |-> 0]

\* ---- Queue and Stack ---------------------------------------------------
Threads == 1..MaxThreads

Idle == [pc |-> "idle", m |-> "none", got |-> "none", out |-> "none"]

\* an adapter: its container, its locker, the Lock() calls not yet matched
\* by Unlock() (w) and the RLock() calls not yet matched by RUnlock() (r),
\* and where each goroutine is in the method it has called
NewAdapter(kind, locker) ==
    [kind |-> kind, locker |-> locker, container |-> <<>>,
     w |-> 0, r |-> 0, th |-> [i \in Threads |-> Idle]]

NoAdapter == NewAdapter("none", "FakeLocker")

QueueMethods == {"Size", "Empty", "Push", "Front", "Back", "Pop", "Clear", "String"}
StackMethods == {"Size", "Empty", "Push", "Top", "Pop", "Clear", "String"}

Methods(kind) == IF kind = "Queue" THEN QueueMethods ELSE StackMethods

\* QueueLockCall with RLock() at the head of Pop
QueueLockCall_popShared(m) ==
    IF m \in {"Push", "Clear"} THEN "Lock" ELSE "RLock"

\* the locker call at the head of a method
QueueLockCall(m) ==
    CASE m = "Size" -> "RLock" [] m = "Empty" -> "RLock"
      [] m = "Push" -> "Lock" [] m = "Front" -> "RLock"
      [] m = "Back" -> "RLock" [] m = "Pop" -> "Lock"
      [] m = "Clear" -> "Lock" [] m = "String" -> "RLock"

StackLockCall(m) ==
    CASE m = "Size" -> "RLock" [] m = "Empty" -> "RLock"
      [] m = "Push" -> "Lock" [] m = "Top" -> "RLock"
      [] m = "Pop" -> "Lock" [] m = "Clear" -> "Lock"
      [] m = "String" -> "RLock"

LockCall(kind, m) ==
    IF kind = "Queue" THEN QueueLockCall(m) ELSE StackLockCall(m)

\* the locker call a method defers
QueueDeferCall(m) ==
    CASE m = "Size" -> "RUnlock" [] m = "Empty" -> "RUnlock"
      [] m = "Push" -> "Unlock" [] m = "Front" -> "RUnlock"
      [] m = "Back" -> "RUnlock" [] m = "Pop" -> "Unlock"
      [] m = "Clear" -> "Unlock" [] m = "String" -> "RUnlock"

StackDeferCall(m) ==
    CASE m = "Size" -> "RUnlock" [] m = "Empty" -> "RUnlock"
      [] m = "Push" -> "Unlock" [] m = "Top" -> "RUnlock"
      [] m = "Pop" -> "Unlock" [] m = "Clear" -> "Unlock"
      [] m = "String" -> "RUnlock"

DeferCall(kind, m) ==
    IF kind = "Queue" THEN QueueDeferCall(m) ELSE StackDeferCall(m)

\* the container call of a method
QueueContainerCall(m) ==
    CASE m = "Size" -> "Size" [] m = "Empty" -> "Empty"
      [] m = "Push" -> "PushBack" [] m = "Front" -> "Front"
      [] m = "Back" -> "Back" [] m = "Pop" -> "PopFront"
      [] m = "Clear" -> "Clear" [] m = "String" -> "String"

StackContainerCall(m) ==
    CASE m = "Size" -> "Size" [] m = "Empty" -> "Empty"
      [] m = "Push" -> "PushBack" [] m = "Top" -> "Back"
      [] m = "Pop" -> "PopBack" [] m = "Clear" -> "Clear"
      [] m = "String" -> "String"

ContainerCall(kind, m) ==
    IF kind = "Queue" THEN QueueContainerCall(m) ELSE StackContainerCall(m)

\* a container as the sequence of its elements
ContainerAfter(c, call, v) ==
    CASE call = "PushBack" -> Append(c, v)
      [] call = "PopFront" -> IF c = <<>> THEN c ELSE Tail(c)
      [] call = "PopBack" -> IF c = <<>> THEN c ELSE SubSeq(c, 1, Len(c) - 1)
      [] call = "Clear" -> <<>>
      [] OTHER -> c

\* how a container call ends: an element is asked of an empty container
\* either way, by the zero value or by a panic
ContainerEnds(c, call) ==
    IF c = <<>> /\ call \in {"PopFront", "PopBack", "Front", "Back"}
    THEN {"return", "panic"} ELSE {"return"}

\* FakeLocker lets every call through; a reader-writer locker lets Lock()
\* through when nothing is held and RLock() when Lock() is not held
LockerAdmits(a, call) ==
    IF a.locker = "FakeLocker" THEN TRUE
    ELSE IF call = "Lock" THEN a.w = 0 /\ a.r = 0 ELSE a.w = 0

Locked(a, call) ==
    IF call = "Lock" THEN [a EXCEPT !.w = @ + 1] ELSE [a EXCEPT !.r = @ + 1]

Unlocked(a, call) ==
    IF call = "Unlock" THEN [a EXCEPT !.w = @ - 1] ELSE [a EXCEPT !.r = @ - 1]

Entry(k, v) == SetToBag({<<k, v>>})

\* the entries (key, value) held by the nodes of the tree, as a bag
RECURSIVE BagOfNodes(_, _)
BagOfNodes(t, s) ==
    IF s = <<>> THEN EmptyBag
    ELSE Entry(t.key[Head(s)], t.value[Head(s)]) (+) BagOfNodes(t, Tail(s))

TreeBag(t) == BagOfNodes(t, InOrder(t))

\* no cursor, no call yet
InitCalls ==
    /\ iter = NIL
    /\ last = Ret("New", 0, 0, NIL, 0, "nil")

InitTree ==
    /\ root = NIL
    /\ size = 0
    /\ parent = [n \in Nodes |-> NIL]
    /\ left = [n \in Nodes |-> NIL]
    /\ right = [n \in Nodes |-> NIL]
    /\ color = [n \in Nodes |-> RED]
    /\ key = [n \in Nodes |-> 0]
    /\ value = [n \in Nodes |-> 0]
    /\ net = 0
    /\ entries = EmptyBag
    /\ InitCalls
    /\ walk = NoWalk
    /\ cur = NoCur
    /\ trav = NoTrav
    /\ seq = 0
    /\ fix = NoFix

Init == InitTree /\ trip = NoTrip /\ ad = NoAdapter

\* the tree and the cursor left by the call op become the next state
Store(c, op) ==
    /\ root' = c.root
    /\ size' = c.size
    /\ parent' = c.parent
    /\ left' = c.left
    /\ right' = c.right
    /\ color' = c.color
    /\ key' = c.key
    /\ value' = c.value
    /\ iter' = c.iter
    /\ last' = Ret(op, c.rot, 0, NIL, 0, "nil")

Insert(k, v) ==
    /\ Free # {}
    /\ Store(Normalize(insertOp(T, NewNode, k, v), iter), "Insert")
    /\ net' = net + 1
    /\ entries' = entries (+) Entry(k, v)
    /\ walk' = NoWalk

\* Delete of a node of the tree
Delete(h) ==
    /\ h \in Live(T)
    /\ Store(Normalize(deleteOp(T, h), iter), "Delete")
    /\ net' = net - 1
    /\ entries' = entries (-) Entry(key[h], value[h])
    /\ walk' = NoWalk

DeleteNil ==
    /\ Store(Normalize(deleteOp(T, NIL), iter), "DeleteNil")
    /\ UNCHANGED <<net, entries, walk>>

\* a read-only call: the tree is not assigned
Query(r) ==
    /\ last' = r
    /\ UNCHANGED <<treeVars, iter, net, entries, walk>>

FindCall(k) ==
    Query(Ret("Find", 0, k, NIL, Find(T, k).val, Find(T, k).err))

FindNodeCall(k) ==
    Query(Ret("FindNode", 0, k, FindNode(T, k), 0, "nil"))

LowerBoundCall(k) ==
    Query(Ret("FindLowerBoundNode", 0, k, FindLowerBoundNode(T, k), 0, "nil"))

UpperBoundCall(k) ==
    Query(Ret("FindUpperBoundNode", 0, k, FindUpperBoundNode(T, k), 0, "nil"))

\* trees of up to MaxNodes nodes, one value
Next ==
    \/ \E k \in Keys, v \in {DefaultVal} : Insert(k, v) /\ UNCHANGED off
    \/ \E h \in Nodes : Delete(h) /\ UNCHANGED off
    \/ DeleteNil /\ UNCHANGED off

Spec == Init /\ [][Next]_vars

\* trees of up to MaxKVNodes nodes with values that differ, and Find
InsertKV(k, v) == Cardinality(Live(T)) < MaxKVNodes /\ Insert(k, v)

NextKV ==
    \/ \E k \in KVKeys, v \in Vals : InsertKV(k, v) /\ UNCHANGED off
    \/ \E h \in Nodes : Delete(h) /\ UNCHANGED off
    \/ \E k \in FindKeys : FindCall(k) /\ UNCHANGED off
    \/ \E k \in FindKeys : FindNodeCall(k) /\ UNCHANGED off

SpecKV == Init /\ [][NextKV]_vars

\* trees of up to MaxQNodes nodes, one value, and the bound queries
InsertQ(k, v) == Cardinality(Live(T)) < MaxQNodes /\ Insert(k, v)

NextQ ==
    \/ \E k \in Keys, v \in {DefaultVal} : InsertQ(k, v) /\ UNCHANGED off
    \/ \E h \in Nodes : Delete(h) /\ UNCHANGED off
    \/ \E k \in QueryKeys : LowerBoundCall(k) /\ UNCHANGED off
    \/ \E k \in QueryKeys : UpperBoundCall(k) /\ UNCHANGED off

SpecQ == Init /\ [][NextQ]_vars

\* a round trip: distinct keys are inserted, then each is deleted through
\* Delete(FindNode(key)), in any order
TripKeys == 1..MaxRTKeys

InitRT ==
    /\ InitTree
    /\ trip = [phase |-> "insert", keys |-> {}, n |-> 0]
    /\ ad = NoAdapter

TripInsert(k) ==
    /\ trip.phase = "insert"
    /\ k \notin trip.keys
    /\ Insert(k, DefaultVal)
    /\ trip' = [trip EXCEPT !.keys = @ \cup {k}, !.n = @ + 1]
    /\ UNCHANGED offTrip

TripDelete(k) ==
    /\ trip.phase \in {"insert", "delete"}
    /\ k \in trip.keys
    /\ Delete(FindNode(T, k))
    /\ trip' = [trip EXCEPT !.keys = @ \ {k},
                            !.phase = IF trip.keys = {k} THEN "done" ELSE "delete"]
    /\ UNCHANGED offTrip

NextRT ==
    \/ \E k \in TripKeys : TripInsert(k)
    \/ \E k \in TripKeys : TripDelete(k)

SpecRT == InitRT /\ [][NextRT]_vars

\* a cursor over a tree, with up to MaxIterNodes nodes referenced: those of
\* the tree and the removed ones the cursor still leads to
InsertIt(k, v) == Cardinality(Held(T, iter)) < MaxIterNodes /\ Insert(k, v)

\* the cursor is set to it by the call op
Move(it, op) ==
    /\ Store(Normalize(T, it), op)
    /\ UNCHANGED <<net, entries>>

IterFirst ==
    /\ Move(First(T), "IterFirst")
    /\ walk' = [on |-> TRUE, fwd |-> 0, back |-> 0]

IterLast ==
    /\ Move(Last(T), "IterLast")
    /\ walk' = NoWalk

\* walk counts the Next() calls since IterFirst() and then the Prev() calls,
\* while they stay inside the N - 1 steps of a tree of N nodes
IterNext ==
    /\ Move(IterNextOp(T, iter), "Next")
    /\ walk' = IF walk.on /\ walk.back = 0 /\ walk.fwd + 1 <= size - 1
               THEN [walk EXCEPT !.fwd = @ + 1] ELSE NoWalk

IterPrev ==
    /\ Move(IterPrevOp(T, iter), "Prev")
    /\ walk' = IF walk.on /\ walk.back + 1 <= walk.fwd
               THEN [walk EXCEPT !.back = @ + 1] ELSE NoWalk

NextIter ==
    \/ \E k \in KVKeys, v \in {DefaultVal} : InsertIt(k, v) /\ UNCHANGED off
    \/ \E h \in Nodes : Delete(h) /\ UNCHANGED off
    \/ IterFirst /\ UNCHANGED off
    \/ IterLast /\ UNCHANGED off
    \/ IterNext /\ UNCHANGED off
    \/ IterPrev /\ UNCHANGED off

SpecIter == Init /\ [][NextIter]_vars

\* a cursor that is kept across Insert, Delete and Clear, with up to
\* MaxCurNodes nodes referenced.  cur.idle counts the Next() and Prev()
\* calls made in a row on an invalid cursor; cur.cut tells that the node the
\* cursor was on has been unlinked by Delete or dropped by Clear since the
\* cursor was obtained.
CurInsert(k, v) ==
    /\ Cardinality(Held(T, iter)) < MaxCurNodes
    /\ Insert(k, v)
    /\ cur' = [cur EXCEPT !.idle = 0]

CurDelete(h) ==
    /\ Delete(h)
    /\ cur' = [idle |-> 0,
               cut |-> cur.cut \/ (IsValid(iter) /\ removed(T, h) = iter)]

CurClear ==
    /\ Store(Normalize(Clear(T), iter), "Clear")
    /\ net' = 0
    /\ entries' = EmptyBag
    /\ walk' = NoWalk
    /\ cur' = [idle |-> 0, cut |-> cur.cut \/ IsValid(iter)]

CurFirst == IterFirst /\ cur' = NoCur

CurLast == IterLast /\ cur' = NoCur

CountIdle == IF IsValid(iter) THEN 0
             ELSE IF cur.idle < MaxIdle THEN cur.idle + 1 ELSE cur.idle

CurNext == IterNext /\ cur' = [cur EXCEPT !.idle = CountIdle]

CurPrev == IterPrev /\ cur' = [cur EXCEPT !.idle = CountIdle]

NextCur ==
    \/ \E k \in KVKeys, v \in {DefaultVal} : CurInsert(k, v) /\ UNCHANGED offCur
    \/ \E h \in Nodes : CurDelete(h) /\ UNCHANGED offCur
    \/ CurClear /\ UNCHANGED offCur
    \/ CurFirst /\ UNCHANGED offCur
    \/ CurLast /\ UNCHANGED offCur
    \/ CurNext /\ UNCHANGED offCur
    \/ CurPrev /\ UNCHANGED offCur

SpecCur == Init /\ [][NextCur]_vars

\* Delete of y with only child x does not enter the delete fixup (y is RED)
\* or leaves its loop at once (x is the root or x is RED)
SkipsFixup(t, y, x) ==
    \/ t.color[y] = RED
    \/ x = splice(t, y, x).root
    \/ getColor(t, x) = RED

\* Delete through a cursor whose node is no longer in the tree: it was
\* unlinked by an earlier Delete or dropped by Clear.  The calls followed are
\* those that do not go round the loop of the delete fixup, where the links
\* of a node that is not in the tree can lead to a nil dereference.
DeleteStale ==
    /\ IsValid(iter) /\ iter \notin Live(T)
    /\ SkipsFixup(T, removed(T, iter), onlyChild(T, removed(T, iter))) = TRUE
    /\ Store(Normalize(deleteOp(T, iter), iter), "DeleteStale")
    /\ UNCHANGED <<net, entries, cur>>
    /\ walk' = NoWalk

\* the calls of SpecCur, up to the first Delete of a node that is not in the
\* tree
NextStale ==
    \/ last.op # "DeleteStale" /\ NextCur
    \/ last.op # "DeleteStale" /\ DeleteStale /\ UNCHANGED offCur

SpecStale == Init /\ [][NextStale]_vars

\* trees of up to MaxTravNodes nodes with values that differ, and Traversal
\* with a visitor of any answers
Answers == [1..MaxTravNodes -> BOOLEAN]

TravInsert(k, v) ==
    /\ Cardinality(Live(T)) < MaxTravNodes
    /\ Insert(k, v)
    /\ trav' = NoTrav

TravDelete(h) == Delete(h) /\ trav' = NoTrav

TraversalCall(answers) ==
    /\ Query(Ret("Traversal", 0, 0, NIL, 0, "nil"))
    /\ trav' = [answers |-> answers, nodes |-> Traversal(T, answers)]

NextTrav ==
    \/ \E k \in KVKeys, v \in Vals : TravInsert(k, v) /\ UNCHANGED offTrav
    \/ \E h \in Nodes : TravDelete(h) /\ UNCHANGED offTrav
    \/ \E a \in Answers : TraversalCall(a) /\ UNCHANGED offTrav

SpecTrav == Init /\ [][NextTrav]_vars

\* IsRbTree on a tree of any shape and any coloring, of up to MaxShapeNodes
\* nodes: the nodes are 1..n in in-order, up[c] is the parent of c
ChildOf(up, n, m, C) == IF C = {} THEN NIL ELSE CHOOSE c \in C : TRUE

ShapeTree(up, col, n) ==
    [root |-> ChildOf(up, n, NIL, {c \in 1..n : up[c] = NIL}),
     size |-> n,
     parent |-> [m \in Nodes |-> IF m <= n THEN up[m] ELSE NIL],
     left |-> [m \in Nodes |-> ChildOf(up, n, m, {c \in 1..n : up[c] = m /\ c < m})],
     right |-> [m \in Nodes |-> ChildOf(up, n, m, {c \in 1..n : up[c] = m /\ c > m})],
     color |-> [m \in Nodes |-> IF m <= n THEN col[m] ELSE RED],
     key |-> [m \in Nodes |-> IF m <= n THEN 1 ELSE 0],
     value |-> [m \in Nodes |-> IF m <= n THEN DefaultVal ELSE 0],
     rot |-> 0]

\* up makes a binary tree of the nodes 1..n
IsShape(up, n) ==
    /\ \A m \in 0..n : Cardinality({c \in 1..n : up[c] = m /\ c < m}) <= 1
    /\ \A m \in 1..n : Cardinality({c \in 1..n : up[c] = m /\ c > m}) <= 1
    /\ InOrder(ShapeTree(up, [m \in 1..n |-> RED], n)) = [i \in 1..n |-> i]

Shapes(n) == {up \in [1..n -> 0..n] : IsShape(up, n)}

InitAs(t) ==
    /\ root = t.root
    /\ size = t.size
    /\ parent = t.parent
    /\ left = t.left
    /\ right = t.right
    /\ color = t.color
    /\ key = t.key
    /\ value = t.value
    /\ net = t.size
    /\ entries = TreeBag(t)

InitShape ==
    /\ \E n \in 0..MaxShapeNodes : \E up \in Shapes(n) :
          \E col \in [1..n -> {RED, BLACK}] : InitAs(ShapeTree(up, col, n))
    /\ InitCalls
    /\ walk = NoWalk
    /\ cur = NoCur
    /\ trav = NoTrav
    /\ seq = 0
    /\ fix = NoFix
    /\ trip = NoTrip
    /\ ad = NoAdapter

IsRbTreeCall ==
    Query(Ret("IsRbTree", 0, 0, NIL, IsRbTree(T).property,
              IF IsRbTree(T).ok THEN "nil" ELSE "violate property"))

NextShape == IsRbTreeCall /\ UNCHANGED off

SpecShape == InitShape /\ [][NextShape]_vars

\* ---- the fixup loops, round by round ------------------------------------
FixKeys == 1..MaxFixKey

\* the address of the new node, where every address may be used
FixNewNode == CHOOSE z \in Nodes \ Live(T) : \A o \in Nodes \ Live(T) : z <= o

\* how many nodes there are from n up to the root
RECURSIVE Depth(_, _, _)
Depth(t, n, d) == IF n = NIL \/ d = 0 THEN 0 ELSE 1 + Depth(t, t.parent[n], d - 1)

\* the depth of x, which is nil or a child of par
DepthUnder(t, x, par) ==
    IF x # NIL THEN Depth(t, x, MaxHeap) ELSE 1 + Depth(t, par, MaxHeap)

\* Insert up to the call of rbInsertFixup
insertLinked(t, z, y, k, v) == linkChild(newNode(t, z, y, k, v), y, z)

InsertFrame(t, z) ==
    [pc |-> "insertFixup", t |-> t, node |-> z, par |-> NIL, rounds |-> 0,
     ended |-> "none", depth |-> Depth(t, z, MaxHeap)]

AfterInsertRound(f, r) ==
    [f EXCEPT !.t = r.t, !.node = r.z, !.rounds = f.rounds + 1,
              !.ended = IF r.rotated THEN "rotate" ELSE "recolor"]

\* Delete up to the test of y.color
deleteUnlinked(t, z, y, x) == copyEntry(splice(t, y, x), z, y)

DeleteFrame(t, x, par) ==
    [pc |-> "deleteFixup", t |-> t, node |-> x, par |-> par, rounds |-> 0,
     ended |-> "none", depth |-> DepthUnder(t, x, par)]

AfterDeleteRound(f, r, par) ==
    [f EXCEPT !.t = r.t, !.node = r.x, !.par = par, !.rounds = f.rounds + 1,
              !.ended = IF r.case = 4 THEN "case4" ELSE "case2"]

\* inside a call the tree is as the call found it and nothing has returned;
\* the entry a call adds or takes away is counted when the call is made
Calling(op, n, e) ==
    /\ last' = Ret(op, 0, 0, NIL, 0, "running")
    /\ net' = n
    /\ entries' = e
    /\ UNCHANGED <<treeVars, iter>>

\* the red-black trees on the nodes lo..hi, numbered in in-order, with bh
\* BLACK nodes on every path down from the root; a RED root only where red
\* is TRUE.  up[c] is the parent of c, NIL for the root
Hang(s, r) == IF s.root = NIL THEN s.up ELSE [s.up EXCEPT ![s.root] = r]

Joined(r, c, L, R) ==
    [root |-> r, up |-> (r :> NIL) @@ Hang(L, r) @@ Hang(R, r),
     col |-> (r :> c) @@ L.col @@ R.col]

RECURSIVE RbSubtrees(_, _, _, _)
RbRooted(lo, hi, r, c, bh) ==
    {Joined(r, c, L, R) : L \in RbSubtrees(lo, r - 1, bh, c = BLACK),
                          R \in RbSubtrees(r + 1, hi, bh, c = BLACK)}

RbSubtrees(lo, hi, bh, red) ==
    IF bh > hi - lo + 1 THEN {}
    ELSE IF lo > hi THEN {[root |-> NIL, up |-> <<>>, col |-> <<>>]}
    ELSE UNION {(IF bh > 0 THEN RbRooted(lo, hi, r, BLACK, bh - 1) ELSE {})
                \cup (IF red THEN RbRooted(lo, hi, r, RED, bh) ELSE {})
                : r \in lo..hi}

\* keys of n nodes in in-order
SortedKeys(n) ==
    {ks \in [1..n -> FixKeys] : \A i \in 1..n : \A j \in i..n : ks[i] <= ks[j]}

Keyed(t, n, ks) ==
    [t EXCEPT !.key = [m \in Nodes |-> IF m <= n THEN ks[m] ELSE 0]]

\* any red-black tree of up to MaxHeap nodes, in any call-free state
InitFix ==
    /\ \E n \in 0..MaxHeap, bh \in 0..MaxHeap :
          \E s \in RbSubtrees(1, n, bh, FALSE) : \E ks \in SortedKeys(n) :
              InitAs(Keyed(ShapeTree(s.up, s.col, n), n, ks))
    /\ InitCalls
    /\ walk = NoWalk
    /\ cur = NoCur
    /\ trav = NoTrav
    /\ seq = 0
    /\ fix = NoFix
    /\ trip = NoTrip
    /\ ad = NoAdapter

\* Insert into the empty tree: the new node is the root, no fixup
InsertRoot(k) ==
    /\ fix.pc = "idle"
    /\ root = NIL
    /\ Store(Normalize(insertOp(T, NewNode, k, DefaultVal), iter), "Insert")
    /\ net' = net + 1
    /\ entries' = entries (+) Entry(k, DefaultVal)
    /\ UNCHANGED fix

\* Insert links the new node and enters rbInsertFixup
InsertEnter(k) ==
    /\ fix.pc = "idle"
    /\ root # NIL
    /\ Cardinality(Live(T)) < MaxHeap
    /\ fix' = InsertFrame(insertLinked(T, FixNewNode, insertDescend(T, root, NIL, k),
                                        k, DefaultVal), FixNewNode)
    /\ Calling("Insert", net + 1, entries (+) Entry(k, DefaultVal))

\* one round of the loop of rbInsertFixup
InsertFixupRound ==
    /\ fix.pc = "insertFixup"
    /\ insertLoopGuard(fix.t, fix.node)
    /\ fix' = AfterInsertRound(fix, insertRound(fix.t, fix.node,
                   fix.t.parent[fix.node], fix.t.parent[fix.t.parent[fix.node]]))
    /\ UNCHANGED <<treeVars, iter, last, net, entries>>

\* the loop of rbInsertFixup is left and Insert returns
InsertFixupReturn ==
    /\ fix.pc = "insertFixup"
    /\ ~insertLoopGuard(fix.t, fix.node)
    /\ Store(Normalize(insertFixupEnd(fix.t), iter), "Insert")
    /\ UNCHANGED <<net, entries>>
    /\ fix' = NoFix

\* Delete of a node where the node unlinked is RED: no fixup
DeleteNoFixup(h) ==
    /\ fix.pc = "idle"
    /\ h \in Live(T)
    /\ color[removed(T, h)] = RED
    /\ Store(Normalize(deleteOp(T, h), iter), "Delete")
    /\ net' = net - 1
    /\ entries' = entries (-) Entry(key[h], value[h])
    /\ UNCHANGED fix

\* Delete unlinks a BLACK node and enters rbDeleteFixup
DeleteEnter(h) ==
    /\ fix.pc = "idle"
    /\ h \in Live(T)
    /\ color[removed(T, h)] = BLACK
    /\ fix' = DeleteFrame(deleteUnlinked(T, h, removed(T, h),
                                          onlyChild(T, removed(T, h))),
                          onlyChild(T, removed(T, h)), parent[removed(T, h)])
    /\ Calling("Delete", net - 1, entries (-) Entry(key[h], value[h]))

\* one round of the loop of rbDeleteFixup
DeleteFixupRound ==
    /\ fix.pc = "deleteFixup"
    /\ deleteLoopGuard(fix.t, fix.node)
    /\ fix' = AfterDeleteRound(fix,
                 deleteRound(fix.t, fix.node, parentOf(fix.t, fix.node, fix.par)),
                 parentOf(fix.t, fix.node, fix.par))
    /\ UNCHANGED <<treeVars, iter, last, net, entries>>

\* the loop of rbDeleteFixup is left and Delete returns
DeleteFixupReturn ==
    /\ fix.pc = "deleteFixup"
    /\ ~deleteLoopGuard(fix.t, fix.node)
    /\ Store(Normalize(decSize(deleteFixupEnd(fix.t, fix.node)), iter), "Delete")
    /\ UNCHANGED <<net, entries>>
    /\ fix' = NoFix

NextFix ==
    \/ \E k \in FixKeys : InsertRoot(k) /\ UNCHANGED offFix
    \/ \E k \in FixKeys : InsertEnter(k) /\ UNCHANGED offFix
    \/ InsertFixupRound /\ UNCHANGED offFix
    \/ InsertFixupReturn /\ UNCHANGED offFix
    \/ \E h \in Nodes : DeleteNoFixup(h) /\ UNCHANGED offFix
    \/ \E h \in Nodes : DeleteEnter(h) /\ UNCHANGED offFix
    \/ DeleteFixupRound /\ UNCHANGED offFix
    \/ DeleteFixupReturn /\ UNCHANGED offFix

SpecFix == InitFix /\ [][NextFix]_vars

\* up to MaxSeq Insert calls, the value of each the number of the call, and
\* Delete, on trees of up to MaxSeqNodes nodes
SeqInsert(k) ==
    /\ seq < MaxSeq
    /\ Cardinality(Live(T)) < MaxSeqNodes
    /\ Insert(k, seq + 1)
    /\ seq' = seq + 1

SeqDelete(h) == Delete(h) /\ UNCHANGED seq

NextSeq ==
    \/ \E k \in KVKeys : SeqInsert(k) /\ UNCHANGED offSeq
    \/ \E h \in Nodes : SeqDelete(h) /\ UNCHANGED offSeq

SpecSeq == Init /\ [][NextSeq]_vars

\* MaxThreads goroutines call the methods of one Queue or one Stack, built
\* with FakeLocker or with a reader-writer locker
InitLock ==
    /\ InitTree
    /\ trip = NoTrip
    /\ \E kind \in {"Queue", "Stack"}, locker \in {"FakeLocker", "RWLocker"} :
          ad = NewAdapter(kind, locker)

offLock == <<treeVars, iter, net, entries, last, walk, trip, cur, trav, seq, fix>>

\* the calls of Push in progress: the container holds up to MaxLen elements
Pushing == Cardinality({i \in Threads : ad.th[i].m = "Push"})

\* q.locker.Lock() or q.locker.RLock() at the head of method m
Acquire(i, m) ==
    /\ ad.th[i].pc = "idle"
    /\ m \in Methods(ad.kind)
    /\ m = "Push" => Len(ad.container) + Pushing < MaxLen
    /\ LockerAdmits(ad, LockCall(ad.kind, m))
    /\ ad' = [Locked(ad, LockCall(ad.kind, m)) EXCEPT
                 !.th[i] = [pc |-> "locked", m |-> m,
                            got |-> LockCall(ad.kind, m), out |-> "none"]]

\* the container call begins
AccessBegin(i) ==
    /\ ad.th[i].pc = "locked"
    /\ ad' = [ad EXCEPT !.th[i].pc = "busy"]

\* the container call ends
AccessEnd(i, v) ==
    /\ ad.th[i].pc = "busy"
    /\ \E out \in ContainerEnds(ad.container, ContainerCall(ad.kind, ad.th[i].m)) :
          ad' = [ad EXCEPT
                    !.container = ContainerAfter(@, ContainerCall(ad.kind, ad.th[i].m), v),
                    !.th[i].pc = "done",
                    !.th[i].out = out]

\* the deferred Unlock() or RUnlock(), on return and on panic
Release(i) ==
    /\ ad.th[i].pc = "done"
    /\ ad' = [Unlocked(ad, DeferCall(ad.kind, ad.th[i].m)) EXCEPT !.th[i] = Idle]

NextLock ==
    \/ \E i \in Threads, m \in QueueMethods \cup StackMethods :
          Acquire(i, m) /\ UNCHANGED offLock
    \/ \E i \in Threads : AccessBegin(i) /\ UNCHANGED offLock
    \/ \E i \in Threads : AccessEnd(i, DefaultVal) /\ UNCHANGED offLock
    \/ \E i \in Threads : Release(i) /\ UNCHANGED offLock

SpecLock == InitLock /\ [][NextLock]_vars

\* ---- properties --------------------------------------------------------
\* the numbers of BLACK nodes met on the paths from n down to a nil leaf
RECURSIVE BlackCounts(_, _, _)
BlackCounts(t, n, d) ==
    IF n = NIL \/ d = 0 THEN {0}
    ELSE LET below == BlackCounts(t, t.left[n], d - 1)
                        \cup BlackCounts(t, t.right[n], d - 1)
             own == IF t.color[n] = BLACK THEN 1 ELSE 0
         IN {c + own : c \in below}

RootBlack(t) == t.root # NIL => t.color[t.root] = BLACK

NoRedRed(t) ==
    \A n \in Live(t) :
        t.color[n] = RED =>
            /\ t.left[n] # NIL => t.color[t.left[n]] = BLACK
            /\ t.right[n] # NIL => t.color[t.right[n]] = BLACK

SameBlackHeight(t) ==
    \A n \in Live(t) : Cardinality(BlackCounts(t, n, MaxHeap)) = 1

RedBlack(t) == RootBlack(t) /\ NoRedRed(t) /\ SameBlackHeight(t)

\* the nodes met by First() followed by Next() until nil
RECURSIVE WalkFrom(_, _, _)
WalkFrom(t, n, d) ==
    IF n = NIL \/ d = 0 THEN <<>>
    ELSE <<n>> \o WalkFrom(t, successor(t, n), d - 1)

Walk(t) == WalkFrom(t, First(t), MaxHeap + 1)

KeysOf(t, s) == [i \in DOMAIN s |-> t.key[s[i]]]

NonDecreasing(s) == \A i \in DOMAIN s : i > 1 => s[i - 1] <= s[i]

SubtreeOrdered(t) ==
    \A n \in Live(t) :
        /\ \A m \in Range(InOrderFrom(t, t.left[n], MaxHeap)) : t.key[m] <= t.key[n]
        /\ \A m \in Range(InOrderFrom(t, t.right[n], MaxHeap)) : t.key[m] >= t.key[n]

\* C1: after every completed Insert and every completed Delete of a node of
\* the tree, the root is BLACK, no RED node has a RED child, every node has
\* one black-height, and IsRbTree() returns (true, nil).
Inv_C1_RedBlack ==
    /\ RedBlack(T)
    /\ IsRbTree(T) = [ok |-> TRUE, property |-> 0]

\* a Delete that went through three rotations of the delete fixup
Wit_C1_DeleteThreeRotations ==
    last.op = "Delete" /\ last.rot = 3 /\ size >= 4

\* C2: First() followed by repeated Next() visits every node of the tree
\* once, with keys in non-decreasing order; every node has only keys <= its
\* own in its left subtree and only keys >= its own in its right subtree.
Inv_C2_InOrderSorted ==
    /\ Len(Walk(T)) = Cardinality(Live(T))
    /\ Range(Walk(T)) = Live(T)
    /\ NonDecreasing(KeysOf(T, Walk(T)))
    /\ SubtreeOrdered(T)

\* a tree with duplicate and distinct keys, after a Delete that rotated
Wit_C2_SortedAfterDelete ==
    /\ last.op = "Delete" /\ last.rot >= 1 /\ size >= 4
    /\ \E n, m \in Live(T) : n # m /\ key[n] = key[m]
    /\ \E n, m \in Live(T) : key[n] < key[m]

\* C3: Size() is the number of nodes reachable from root and is the number
\* of Insert calls minus the number of Delete calls that removed a node;
\* Empty() is true exactly when root is nil.
Inv_C3_SizeCounts ==
    /\ Size(T) = Cardinality(Live(T))
    /\ Size(T) = net
    /\ Empty(T) <=> root = NIL

Wit_C3_SizeAfterDelete ==
    last.op = "Delete" /\ size = 3 /\ net = 3

\* C9: Delete(nil) changes nothing: root, size, and every node's key, value,
\* color and links are as before the call.
Prop_C9_DeleteNilNoOp ==
    [][last'.op = "DeleteNil" => UNCHANGED treeVars]_vars

Wit_C9_DeleteNilOnTree ==
    last.op = "DeleteNil" /\ size >= 3

\* C4: the entries of the tree are the entries inserted so far minus, for
\* each Delete(h), the entry h held when it was called: Insert adds one
\* entry also for a key already present, Delete removes exactly that one
\* entry and leaves every other entry's key and value as they were.
Inv_C4_EntriesMultiset ==
    /\ TreeBag(T) = entries
    /\ BagCardinality(entries) = net

\* a Delete that copied the successor's entry, among equal keys with
\* different values
Wit_C4_DeleteAmongDuplicates ==
    /\ last.op = "Delete" /\ size = 2
    /\ \E n, m \in Live(T) : n # m /\ key[n] = key[m] /\ value[n] # value[m]

\* the first node in in-order whose key satisfies P, or NIL
FirstWhere(t, P(_)) ==
    LET s == InOrder(t)
        I == {i \in DOMAIN s : P(t.key[s[i]])}
    IN IF I = {} THEN NIL ELSE s[CHOOSE i \in I : \A j \in I : i <= j]

\* C6: FindLowerBoundNode(key) is the first node in in-order whose key is
\* not less than key, and nil when there is none.
Inv_C6_LowerBound ==
    \A k \in QueryKeys :
        FindLowerBoundNode(T, k) = FirstWhere(T, LAMBDA q : q >= k)

\* a lower bound that is the first of several nodes with one key, and not the
\* first node of the tree
Wit_C6_LowerBoundFirstDuplicate ==
    /\ last.op = "FindLowerBoundNode" /\ last.node # NIL
    /\ last.node # First(T)
    /\ \E m \in Live(T) : m # last.node /\ key[m] = key[last.node]

\* C7: FindUpperBoundNode(key) is the first node in in-order whose key is
\* greater than key, and nil when there is none.
Inv_C7_UpperBound ==
    \A k \in QueryKeys :
        FindUpperBoundNode(T, k) = FirstWhere(T, LAMBDA q : q > k)

\* an upper bound past several nodes whose key equals the query key
Wit_C7_UpperBoundPastDuplicates ==
    /\ last.op = "FindUpperBoundNode" /\ last.node # NIL
    /\ \E n, m \in Live(T) : n # m /\ key[n] = last.key /\ key[m] = last.key

FoundFirst(t, k) ==
    /\ FindNode(t, k) = FirstWhere(t, LAMBDA q : q = k)
    /\ Find(t, k) = IF FirstWhere(t, LAMBDA q : q = k) # NIL
                    THEN [val |-> t.value[FirstWhere(t, LAMBDA q : q = k)], err |-> "nil"]
                    ELSE [val |-> ZeroValue, err |-> "ErrorNotFound"]

\* C8: Find(key) returns the value of the first node in in-order whose key
\* equals key, with a nil error, when there is such a node, and the zero
\* value with ErrorNotFound exactly when there is none; FindNode(key) returns
\* that first node or nil; neither call changes the tree.
Prop_C8_Find ==
    /\ [](\A k \in FindKeys \cup {0} : FoundFirst(T, k))
    /\ [][last'.op \in {"Find", "FindNode"} => UNCHANGED treeVars]_vars

\* Find on a key held by two nodes with different values
Wit_C8_FindAmongDuplicates ==
    /\ last.op = "Find" /\ last.err = "nil"
    /\ \E n, m \in Live(T) : n # m /\ key[n] = last.key /\ key[m] = last.key
                              /\ value[n] # value[m]

\* C5: after N >= 1 distinct keys were inserted and all N were deleted, each
\* by Delete(FindNode(key)), in any order, Empty() is true, Size() is 0,
\* root is nil and IsRbTree() returns (true, nil).
Inv_C5_RoundTripEmpty ==
    trip.phase = "done" =>
        /\ Empty(T)
        /\ Size(T) = 0
        /\ root = NIL
        /\ IsRbTree(T) = [ok |-> TRUE, property |-> 0]

\* a round trip of four or more keys has ended
Wit_C5_RoundTripDone ==
    trip.phase = "done" /\ trip.n >= 4

\* C10: a cursor from IterFirst() that took a Next() steps (a <= N - 1) and
\* then b Prev() steps (b <= a) is valid and on the node at in-order
\* position 1 + a - b, so N - 1 steps forward visit the nodes in ascending
\* order and N - 1 steps back end on the first node; on the nodes of the tree
\* predecessor(successor(n)) = n and successor(predecessor(n)) = n.
Inv_C10_IteratorSymmetry ==
    /\ (walk.on /\ size >= 1) =>
          /\ IsValid(iter)
          /\ iter = InOrder(T)[1 + walk.fwd - walk.back]
    /\ NonDecreasing(KeysOf(T, InOrder(T)))
    /\ \A n \in Live(T) :
          /\ successor(T, n) # NIL => presuccessor(T, successor(T, n)) = n
          /\ presuccessor(T, n) # NIL => successor(T, presuccessor(T, n)) = n

\* N - 1 steps forward and N - 1 steps back on a tree of N >= 3 nodes
Wit_C10_ForwardThenBack ==
    /\ walk.on /\ size >= 3
    /\ walk.fwd = size - 1 /\ walk.back = size - 1
    /\ last.op = "Prev" /\ iter = First(T)

\* C11: Next() and Prev() on an invalid cursor leave it invalid and leave the
\* tree as it is, so a cursor that is invalid stays invalid under any
\* further Next() and Prev() calls.
Prop_C11_InvalidStays ==
    [][(last'.op \in {"Next", "Prev"} /\ ~IsValid(iter))
          => (~IsValid(iter') /\ UNCHANGED treeVars)]_vars

\* two calls in a row, the last a Prev(), on an invalid cursor of a tree
\* that has nodes
Wit_C11_CallsOnInvalid ==
    /\ cur.idle = MaxIdle /\ last.op = "Prev" /\ ~IsValid(iter)
    /\ size >= 2

\* C12 as stated: IsValid() is true exactly when the node the cursor holds
\* is a node of the tree, under any interleaving of Insert, Delete and Clear
\* with Next() and Prev().
Inv_C12_ValidIffLive ==
    IsValid(iter) <=> iter \in Live(T)

\* C12, amended: IsValid() is true exactly when the node the cursor holds is
\* a node of the tree, as long as no Delete has unlinked the node the cursor
\* was on and no Clear has run while the cursor held a node, since the cursor
\* was obtained.
Inv_C12_ValidIffLiveUncut ==
    ~cur.cut => (IsValid(iter) <=> iter \in Live(T))

\* a Delete has unlinked another node than the one the cursor is on
Wit_C12_DeleteBesideCursor ==
    /\ last.op = "Delete" /\ ~cur.cut
    /\ IsValid(iter) /\ size >= 2

\* the entries (key, value) of a sequence of nodes
EntriesOf(t, s) == [i \in DOMAIN s |-> <<t.key[s[i]], t.value[s[i]]>>]

\* the number of calls a visitor of these answers gets on n entries: up to
\* and including its first answer false
CallsDue(answers, n) ==
    LET F == {i \in 1..n : ~answers[i]}
    IN IF F = {} THEN n ELSE CHOOSE i \in F : \A j \in F : i <= j

\* C13: Traversal calls the visitor on the entries in in-order from the
\* minimum, once per node, up to and including the first entry on which the
\* visitor answers false, on all entries when it never does, and never on an
\* empty tree; the keys it is called on ascend.
Inv_C13_TraversalPrefix ==
    last.op = "Traversal" =>
        /\ trav.nodes = SubSeq(InOrder(T), 1, CallsDue(trav.answers, size))
        /\ EntriesOf(T, trav.nodes)
              = SubSeq(EntriesOf(T, InOrder(T)), 1, CallsDue(trav.answers, size))
        /\ NonDecreasing(KeysOf(T, trav.nodes))
        /\ Cardinality(Range(trav.nodes)) = Len(trav.nodes)
        /\ size = 0 => trav.nodes = <<>>

\* a Traversal of three nodes that the visitor stopped at the second
Wit_C13_StoppedAtSecond ==
    /\ last.op = "Traversal" /\ size = 3
    /\ Len(trav.nodes) = 2
    /\ trav.answers[1] /\ ~trav.answers[2]
    /\ left[root] # NIL

\* C14: on a tree of any shape and coloring IsRbTree() returns (true, nil)
\* exactly when the root is BLACK or absent, no RED node has a RED child and
\* every node has one black-height; when it returns false the property it
\* names is 2, 4 or 5 and that property is violated in the tree.
Inv_C14_CheckerExact ==
    /\ IsRbTree(T).ok <=> RedBlack(T)
    /\ IsRbTree(T).ok => IsRbTree(T).property = 0
    /\ ~IsRbTree(T).ok =>
          /\ IsRbTree(T).property \in {2, 4, 5}
          /\ IsRbTree(T).property = 2 => ~RootBlack(T)
          /\ IsRbTree(T).property = 4 => ~NoRedRed(T)
          /\ IsRbTree(T).property = 5 => ~SameBlackHeight(T)

\* IsRbTree() has named property 4 on a tree that has a BLACK root and on
\* which every node has one black-height
Wit_C14_RedRedOnly ==
    /\ last.op = "IsRbTree" /\ last.val = 4 /\ last.err = "violate property"
    /\ RootBlack(T) /\ SameBlackHeight(T) /\ size >= 3

Mutating == {"Push", "Pop", "Clear"}

InCall(i) == ad.th[i].pc # "idle"

\* C15: every Queue and Stack method takes the exclusive lock (Push, Pop,
\* Clear) or the shared lock (the others) before its container call and
\* releases that same lock once on return and on panic, so the locks held
\* are those of the calls in progress and none when all calls have returned;
\* under a reader-writer locker a mutating call's container call overlaps no
\* other call's container call.
Inv_C15_LockBracket ==
    /\ \A i \in Threads : InCall(i) =>
          ad.th[i].got = IF ad.th[i].m \in Mutating THEN "Lock" ELSE "RLock"
    /\ ad.w = Cardinality({i \in Threads : InCall(i) /\ ad.th[i].got = "Lock"})
    /\ ad.r = Cardinality({i \in Threads : InCall(i) /\ ad.th[i].got = "RLock"})
    /\ (\A i \in Threads : ~InCall(i)) => ad.w = 0 /\ ad.r = 0
    /\ ad.locker = "RWLocker" =>
          \A i, j \in Threads :
              (i # j /\ ad.th[i].pc = "busy" /\ ad.th[i].m \in Mutating)
                  => ad.th[j].pc # "busy"

\* under a reader-writer locker, Pop on an empty container has ended by a
\* panic and still holds the exclusive lock it is about to release
Wit_C15_PanicUnderLock ==
    /\ ad.locker = "RWLocker" /\ ad.kind = "Queue"
    /\ \E i \in Threads : /\ ad.th[i].pc = "done" /\ ad.th[i].m = "Pop"
                          /\ ad.th[i].out = "panic"
    /\ ad.w = 1

\* the tree with a value of its own in every node
Tagged(t) == [t EXCEPT !.value = [n \in Nodes |-> n]]

TwoChildren(t, z) == t.left[z] # NIL /\ t.right[z] # NIL

\* the node after z in in-order
NextInOrder(t, z) ==
    LET s == InOrder(t)
        i == CHOOSE j \in DOMAIN s : s[j] = z
    IN IF i < Len(s) THEN s[i + 1] ELSE NIL

\* t2 is t without the node y: when y is not z, z has taken the entry of y,
\* and every other node has kept its entry
LeavesTree(t, z, y, t2) ==
    /\ Live(t2) = Live(t) \ {y}
    /\ Cardinality(Live(t2)) = Cardinality(Live(t)) - 1
    /\ \A n \in Live(t2) \ {z} : t2.key[n] = t.key[n] /\ t2.value[n] = t.value[n]
    /\ IF y # z
       THEN z \in Live(t2) /\ t2.key[z] = t.key[y] /\ t2.value[z] = t.value[y]
       ELSE z \notin Live(t2)

\* C16: Delete(z) of a node with two children unlinks the node after z in
\* in-order: z stays in the tree with the key and the value of that node,
\* that node is no longer in the tree, one node has left and every other
\* node has its key and value; Delete(z) of a node with at most one child
\* unlinks z.
Inv_C16_SuccessorLeaves ==
    \A z \in Live(T) :
        LeavesTree(Tagged(T), z,
                   IF TwoChildren(T, z) THEN NextInOrder(T, z) ELSE z,
                   deleteOp(Tagged(T), z))

\* a node with two children whose successor is not its right child and has a
\* child of its own: Delete of the node unlinks the successor
Wit_C16_DeepSuccessor ==
    /\ \E z \in Live(T) :
          /\ TwoChildren(T, z)
          /\ NextInOrder(T, z) # right[z]
          /\ right[NextInOrder(T, z)] # NIL
          /\ NextInOrder(T, z) \notin Live(deleteOp(T, z))
          /\ z \in Live(deleteOp(T, z))

\* C17: Delete(h) of a node that is no longer in the tree leaves root,
\* Size(), the nodes of the tree and the in-order sequence of entries as they
\* were.
Prop_C17_DeleteStaleNoOp ==
    [][last'.op = "DeleteStale" =>
          /\ root' = root
          /\ size' = size
          /\ Live(T)' = Live(T)
          /\ EntriesOf(T, InOrder(T))' = EntriesOf(T, InOrder(T))]_vars

\* t2 is t after a rotation at x that promotes y, the child of x, and hands
\* the subtree under b from y to x: the nodes are in the same in-order, all
\* colors, keys and values are as before, the links of the other nodes than
\* x, y, b and the parent of x are as before, and the root is y when x was
\* the root and as before when it was not
RotationFrame(t, x, y, b, t2) ==
    /\ InOrder(t2) = InOrder(t)
    /\ t2.color = t.color /\ t2.key = t.key /\ t2.value = t.value
    /\ \A n \in Nodes \ {x, y, b, t.parent[x]} :
          /\ t2.parent[n] = t.parent[n]
          /\ t2.left[n] = t.left[n]
          /\ t2.right[n] = t.right[n]
    /\ t2.root = IF t.root = x THEN y ELSE t.root
    /\ t2.root = y <=> t.root = x

\* C18: leftRotate(x) where x.right is not nil and rightRotate(x) where
\* x.left is not nil keep the in-order sequence of the nodes and every
\* node's color, key and value, change links only of x, of the promoted
\* child, of the root of the subtree handed over and of the parent of x, and
\* make the promoted child the root exactly when x was the root.
Inv_C18_RotationFrame ==
    \A x \in Live(T) :
        /\ right[x] # NIL =>
              RotationFrame(T, x, right[x], left[right[x]], leftRotate(T, x))
        /\ left[x] # NIL =>
              RotationFrame(T, x, left[x], right[left[x]], rightRotate(T, x))

\* a node under the root whose right child has a left subtree: leftRotate
\* there hands that subtree over and keeps the root
Wit_C18_InnerSubtree ==
    /\ \E x \in Live(T) :
          /\ x # root /\ right[x] # NIL /\ left[right[x]] # NIL
          /\ leftRotate(T, x).right[x] = left[right[x]]
          /\ leftRotate(T, x).root = root

\* C19: after every completed Insert and every completed Delete of a node of
\* the tree, root.parent is nil and every non-nil child of a node of the tree
\* has that node as its parent, so that no node is reached twice from the
\* root and the successor and the predecessor of a node of the tree are nodes
\* of the tree or nil.
Inv_C19_LinksConsistent ==
    /\ root # NIL => parent[root] = NIL
    /\ \A n \in Live(T) :
          /\ left[n] # NIL => parent[left[n]] = n
          /\ right[n] # NIL => parent[right[n]] = n
          /\ successor(T, n) \in Live(T) \cup {NIL}
          /\ presuccessor(T, n) \in Live(T) \cup {NIL}
    /\ Len(InOrder(T)) = Cardinality(Live(T))

\* a Delete whose only child took the place of the unlinked node, followed by
\* rotations of the delete fixup
Wit_C19_AfterDeleteRotations ==
    last.op = "Delete" /\ last.rot >= 2 /\ size >= 4 /\ net = size

\* C20: the entries with equal keys are in in-order in the order of their
\* Insert calls, after any Insert calls and Delete calls on nodes of the
\* tree.
Inv_C20_InsertionOrder ==
    \A i, j \in DOMAIN InOrder(T) :
        (i < j /\ key[InOrder(T)[i]] = key[InOrder(T)[j]])
            => value[InOrder(T)[i]] < value[InOrder(T)[j]]

\* after a Delete that rotated, three entries with one key, not all of
\* Insert calls in a row
Wit_C20_DuplicatesAfterDelete ==
    /\ last.op = "Delete" /\ last.rot >= 1
    /\ \E a, b, c \in Live(T) :
          /\ a # b /\ b # c /\ a # c
          /\ key[a] = key[b] /\ key[b] = key[c]
          /\ value[a] + 1 < value[b]

\* ---- rotations and rounds of the fixup loops ---------------------------
\* the loop of rbInsertFixup will run another round
InsertLoops(f) == f.pc = "insertFixup" /\ insertLoopGuard(f.t, f.node)

\* the loop of rbDeleteFixup will run another round
DeleteLoops(f) == f.pc = "deleteFixup" /\ deleteLoopGuard(f.t, f.node)

\* C21: on any red-black tree a call of Insert has made at most 2 rotations
\* and a call of Delete at most 3, at every round of the fixup loop and when
\* the call has returned; the insert fixup loop is left right after a round
\* that went through its rotation case, and the delete fixup loop right after
\* a round that ended in case 4, which leaves x at the root; and both loops
\* terminate: as long as the loop goes on, every round has taken the loop's
\* node up, by two levels in the insert fixup and by one in the delete fixup
Inv_C21_BoundedRotations ==
    /\ last.op = "Insert" => last.rot <= 2
    /\ last.op = "Delete" => last.rot <= 3
    /\ fix.pc = "insertFixup" =>
          /\ fix.t.rot <= 2
          /\ fix.ended = "rotate" => ~InsertLoops(fix)
          /\ InsertLoops(fix) =>
                Depth(fix.t, fix.node, MaxHeap) + 2 * fix.rounds = fix.depth
    /\ fix.pc = "deleteFixup" =>
          /\ fix.t.rot <= 3
          /\ fix.ended = "case4" => fix.node = fix.t.root /\ ~DeleteLoops(fix)
          /\ DeleteLoops(fix) =>
                DepthUnder(fix.t, fix.node, fix.par) + fix.rounds = fix.depth

\* an Insert whose fixup loop ran a recoloring round and then a round that
\* rotated twice, and is about to be left
Wit_C21_RecolorThenRotate ==
    /\ fix.pc = "insertFixup" /\ fix.rounds = 2 /\ fix.ended = "rotate"
    /\ fix.t.rot = 2
    /\ ~InsertLoops(fix)
====
